---- MODULE Spec2Model ----
(***************************************************************************)
(* Model of uqbar.py: a batch of read-only uqAlloc queries against the     *)
(* UqbarDAO contract.  One run of main() is a state machine; the position  *)
(* of main() is pc.  Strings are TLA+ strings and are built and taken      *)
(* apart as the script does it.  Addresses are scaled from 40 hex digits   *)
(* to AddressHexLen digits and keccak is replaced by a fixed table.        *)
(***************************************************************************)
EXTENDS Integers, Sequences, FiniteSets, TLC

VARIABLES pc, addresses, i, results, calls, report, summary, message

vars == <<pc, addresses, i, results, calls, report, summary, message>>

(***************************************************************************)
(* Bounds of the model.                                                    *)
(***************************************************************************)
\* longest address list / number of CSV rows explored
MaxLen == 3

(***************************************************************************)
(* Input alphabets.                                                        *)
(***************************************************************************)
\* raw address strings given on the command line
RawStrings == {"0xab", "0xCd", "0xAb", "not-an-address"}

\* first cells of CSV rows: the same strings, padded ones and blank ones
CsvCells == RawStrings \cup {" 0xab ", "  "}

\* values the uint256 view function returns
Allocations == {0, 1000}

\* texts of the exceptions a call raises
Details == {"Success"}

(***************************************************************************)
(* String helpers.                                                         *)
(***************************************************************************)
Char(s, k) == SubSeq(s, k, k)

RECURSIVE IndexIn(_, _, _)
\* position of the character c in the alphabet s from position k on, 0 if absent
IndexIn(c, s, k) ==
    IF k > Len(s) THEN 0
    ELSE IF Char(s, k) = c THEN k
    ELSE IndexIn(c, s, k + 1)

LowerHex == "abcdef"
UpperHex == "ABCDEF"
DecDigits == "0123456789"

IsHexChar(c) ==
    \/ IndexIn(c, DecDigits, 1) > 0
    \/ IndexIn(c, LowerHex, 1) > 0
    \/ IndexIn(c, UpperHex, 1) > 0

LowerChar(c) ==
    IF IndexIn(c, UpperHex, 1) > 0 THEN Char(LowerHex, IndexIn(c, UpperHex, 1)) ELSE c

UpperChar(c) ==
    IF IndexIn(c, LowerHex, 1) > 0 THEN Char(UpperHex, IndexIn(c, LowerHex, 1)) ELSE c

RECURSIVE LowerStr(_)
LowerStr(s) ==
    IF Len(s) = 0 THEN "" ELSE LowerChar(Char(s, 1)) \o LowerStr(SubSeq(s, 2, Len(s)))

RECURSIVE UpperStr(_)
UpperStr(s) ==
    IF Len(s) = 0 THEN "" ELSE UpperChar(Char(s, 1)) \o UpperStr(SubSeq(s, 2, Len(s)))

RECURSIVE strip(_)
\* str.strip() for blanks
strip(s) ==
    IF Len(s) = 0 THEN s
    ELSE IF Char(s, 1) = " " THEN strip(SubSeq(s, 2, Len(s)))
    ELSE IF Char(s, Len(s)) = " " THEN strip(SubSeq(s, 1, Len(s) - 1))
    ELSE s

\* fill characters of the format specifications
Blanks == "                                                  "

\* the format specification :<w
PadRight(s, w) == IF Len(s) >= w THEN s ELSE s \o SubSeq(Blanks, 1, w - Len(s))

(***************************************************************************)
(* Address validation and checksum form (Web3.is_address,                  *)
(* Web3.to_checksum_address).                                              *)
(***************************************************************************)
\* number of hex digits of an address in the model (40 on chain)
AddressHexLen == 2

has_0x_prefix(s) == Len(s) >= 2 /\ SubSeq(s, 1, 2) \in {"0x", "0X"}

remove_0x_prefix(s) == IF has_0x_prefix(s) THEN SubSeq(s, 3, Len(s)) ELSE s

is_hex_address(s) ==
    LET body == remove_0x_prefix(s)
    IN  /\ Len(body) = AddressHexLen
        /\ \A k \in 1..Len(body) : IsHexChar(Char(body, k))

\* stand-in for the keccak digest of the lower-case digits: the set of
\* positions the checksum form writes in upper case
HashUpperPositions(body) ==
    IF body = "ab" THEN {2}
    ELSE IF body = "cd" THEN {1}
    ELSE {}

RECURSIVE ChecksumCase(_, _, _)
ChecksumCase(body, ups, k) ==
    IF k > Len(body) THEN ""
    ELSE (IF k \in ups THEN UpperChar(Char(body, k)) ELSE Char(body, k))
         \o ChecksumCase(body, ups, k + 1)

to_checksum_address(s) ==
    LET body == LowerStr(remove_0x_prefix(s))
    IN  "0x" \o ChecksumCase(body, HashUpperPositions(body), 1)

is_checksum_formatted(s) ==
    LET body == remove_0x_prefix(s)
    IN  body # LowerStr(body) /\ body # UpperStr(body)

is_address(s) ==
    /\ is_hex_address(s)
    /\ is_checksum_formatted(s) => s = to_checksum_address(s)

\* Web3.is_address and Web3.to_checksum_address on the input strings of the
\* model, worked out once for each string
IsValid == [a \in RawStrings |-> is_address(a)]

Canonical == [a \in RawStrings |-> to_checksum_address(a)]

validate_address(address) == IsValid[address]

(***************************************************************************)
(* The sums of the summary.                                                *)
(***************************************************************************)
RECURSIVE successful_queries_ByAllocation(_)
\* variant: a success is recognised by a positive allocation
successful_queries_ByAllocation(rs) ==
    IF Len(rs) = 0 THEN 0
    ELSE (IF Head(rs)[2] > 0 THEN 1 ELSE 0) + successful_queries_ByAllocation(Tail(rs))

RECURSIVE successful_queries(_)
\* sum(1 for _, _, status in results if status == "Success")
successful_queries(rs) ==
    IF Len(rs) = 0 THEN 0
    ELSE (IF Head(rs)[3] = "Success" THEN 1 ELSE 0) + successful_queries(Tail(rs))

RECURSIVE total_allocation(_)
\* sum(allocation for _, allocation, status in results if status == "Success")
total_allocation(rs) ==
    IF Len(rs) = 0 THEN 0
    ELSE (IF Head(rs)[3] = "Success" THEN Head(rs)[2] ELSE 0) + total_allocation(Tail(rs))

(***************************************************************************)
(* The read call and its outcomes.                                         *)
(***************************************************************************)
\* classes of the exceptions the call raises, with their base classes
\* (web3.exceptions: ContractLogicError derives from Web3Exception)
ExceptionClasses == {"ContractLogicError", "Web3Exception", "Exception"}

Bases(cls) ==
    IF cls = "ContractLogicError" THEN {"ContractLogicError", "Web3Exception", "Exception"}
    ELSE IF cls = "Web3Exception" THEN {"Web3Exception", "Exception"}
    ELSE {"Exception"}

isinstance(cls, handler) == handler \in Bases(cls)

Pending == [kind |-> "pending", value |-> 0, exc |-> "", detail |-> ""]

\* what contract.functions.uqAlloc(a).call() does: return a uint256 or raise
CallOutcomes ==
    {[kind |-> "return", value |-> v, exc |-> "", detail |-> ""] : v \in Allocations}
    \cup {[kind |-> "raise", value |-> 0, exc |-> c, detail |-> d] :
             c \in ExceptionClasses, d \in Details}

\* variant: the clause for Web3Exception is tried before the one for its
\* subclass ContractLogicError
ExceptStatus_Web3First(exc, e) ==
    IF isinstance(exc, "Web3Exception") THEN "Web3 error: " \o e
    ELSE IF isinstance(exc, "ContractLogicError") THEN "Contract error: " \o e
    ELSE "Error: " \o e

\* variant: the last clause returns the text of the exception alone
ExceptStatus_BareText(exc, e) ==
    IF isinstance(exc, "ContractLogicError") THEN "Contract error: " \o e
    ELSE IF isinstance(exc, "Web3Exception") THEN "Web3 error: " \o e
    ELSE e

\* the except clauses of query_uq_alloc, tried in their textual order
ExceptStatus(exc, e) ==
    IF isinstance(exc, "ContractLogicError") THEN "Contract error: " \o e
    ELSE IF isinstance(exc, "Web3Exception") THEN "Web3 error: " \o e
    ELSE "Error: " \o e

\* the result of query_uq_alloc for an address that failed validation
InvalidResult(address) == <<address, 0, "Invalid address format">>

\* variant: the allocation returned is added to those already collected
CallResult_RunningTotal(address, outcome) ==
    IF outcome.kind = "return"
    THEN <<Canonical[address], outcome.value + total_allocation(results), "Success">>
    ELSE <<address, 0, ExceptStatus(outcome.exc, outcome.detail)>>

\* variant: the except clauses return the checksum form of the address
CallResult_ChecksumOnFailure(address, outcome) ==
    IF outcome.kind = "return"
    THEN <<Canonical[address], outcome.value, "Success">>
    ELSE <<Canonical[address], 0, ExceptStatus(outcome.exc, outcome.detail)>>

\* the result of query_uq_alloc for a valid address whose call ended in outcome
CallResult(address, outcome) ==
    IF outcome.kind = "return"
    THEN <<Canonical[address], outcome.value, "Success">>
    ELSE <<address, 0, ExceptStatus(outcome.exc, outcome.detail)>>

query_uq_alloc(address, outcome) ==
    IF ~validate_address(address) THEN InvalidResult(address)
    ELSE CallResult(address, outcome)

\* variant: results.insert(0, result)
AppendResult_Prepend(rs, result) == <<result>> \o rs

\* results.append(result)
AppendResult(rs, result) == Append(rs, result)

(***************************************************************************)
(* Loading the input.                                                      *)
(***************************************************************************)
RECURSIVE SeqsUpTo(_, _)
\* the sequences over S of length at most n
SeqsUpTo(S, n) ==
    IF n = 0 THEN {<<>>}
    ELSE LET shorter == SeqsUpTo(S, n - 1)
         IN  shorter \cup {Append(q, x) : q \in shorter, x \in S}

\* rows of a CSV file as csv.reader yields them: a blank line or a first cell
CsvRows == {<<>>} \cup {<<c>> : c \in CsvCells}

RECURSIVE CollectCells(_)
\* the loop over the rows of load_addresses_from_csv
CollectCells(rows) ==
    IF Len(rows) = 0 THEN <<>>
    ELSE LET row == Head(rows)
             rest == CollectCells(Tail(rows))
         IN  IF Len(row) = 0 THEN rest
             ELSE IF Len(strip(row[1])) = 0 THEN rest
             ELSE <<strip(row[1])>> \o rest

\* load_addresses_from_csv on a readable file; next(reader) on a file
\* without rows raises, which is the read-error exit
load_addresses_from_csv(rows, has_header) ==
    IF has_header
    THEN IF Len(rows) = 0 THEN [ok |-> FALSE, addresses |-> <<>>]
         ELSE [ok |-> TRUE, addresses |-> CollectCells(Tail(rows))]
    ELSE [ok |-> TRUE, addresses |-> CollectCells(rows)]

(***************************************************************************)
(* Report and summary.                                                     *)
(***************************************************************************)
AddressWidth == 45
AllocationWidth == 15

\* variant: the table prints the allocation of every result
TableLine_AlwaysNumber(r) ==
    PadRight(r[1], AddressWidth) \o " " \o PadRight(ToString(r[2]), AllocationWidth)
    \o " " \o r[3]

\* one line of the console table
TableLine(r) ==
    IF r[3] = "Success"
    THEN PadRight(r[1], AddressWidth) \o " " \o PadRight(ToString(r[2]), AllocationWidth)
         \o " " \o r[3]
    ELSE PadRight(r[1], AddressWidth) \o " " \o PadRight("N/A", AllocationWidth)
         \o " " \o r[3]

\* the lines printed by the loop over results
TableLines(rs) == [k \in 1..Len(rs) |-> TableLine(rs[k])]

CsvHeader == <<"address", "uq_allocation", "status">>

\* a record as csv.writer writes it
CsvRecord(r) == <<r[1], ToString(r[2]), r[3]>>

\* writer.writerow(header); writer.writerows(results)
CsvFileContent(rs) == <<CsvHeader>> \o [k \in 1..Len(rs) |-> CsvRecord(rs[k])]

NoReport == [kind |-> "none", lines |-> <<>>]
NoSummary == [total |-> -1, successful |-> -1, failed |-> -1, total_allocation |-> -1]

(***************************************************************************)
(* The run of main().                                                      *)
(***************************************************************************)
Init ==
    /\ pc = "load"
    /\ addresses = <<>>
    /\ i = 0
    /\ results = <<>>
    /\ calls = <<>>
    /\ report = NoReport
    /\ summary = NoSummary
    /\ message = ""

\* variant: the check for an empty list is missing
Loaded_NoEmptyCheck(list) ==
    /\ addresses' = list
    /\ pc' = "connect"
    /\ message' = ""

\* lines 165-169: the check of the loaded list
Loaded(list) ==
    /\ addresses' = list
    /\ IF Len(list) = 0
       THEN pc' = "exit" /\ message' = "No addresses to query"
       ELSE pc' = "connect" /\ message' = ""

\* --addresses a1 a2 ...: nargs='+' gives at least one string
LoadFromArgs ==
    /\ pc = "load"
    /\ \E list \in SeqsUpTo(RawStrings, MaxLen) \ {<<>>} : Loaded(list)
    /\ UNCHANGED <<i, results, calls, report, summary>>

\* --csv-file path, the file can be opened and read
LoadFromCsv ==
    /\ pc = "load"
    /\ \E rows \in SeqsUpTo(CsvRows, MaxLen), has_header \in BOOLEAN :
          LET loaded == load_addresses_from_csv(rows, has_header)
          IN  IF loaded.ok THEN Loaded(loaded.addresses)
              ELSE /\ pc' = "exit"
                   /\ message' = "Error reading CSV file"
                   /\ addresses' = addresses
    /\ UNCHANGED <<i, results, calls, report, summary>>

\* --csv-file path, the file is missing or cannot be read
LoadCsvFails ==
    /\ pc = "load"
    /\ \E m \in {"Error: CSV file not found", "Error reading CSV file"} : message' = m
    /\ pc' = "exit"
    /\ UNCHANGED <<addresses, i, results, calls, report, summary>>

\* setup_web3 and the construction of the contract handle
Connect ==
    /\ pc = "connect"
    /\ \E connected \in BOOLEAN :
          IF connected
          THEN pc' = "loop" /\ message' = message
          ELSE pc' = "exit" /\ message' = "Error connecting to RPC endpoint"
    /\ UNCHANGED <<addresses, i, results, calls, report, summary>>

\* variant: the loop also ends at the first address that did not succeed
LoopDone_StopsOnFailure(n, list) ==
    \/ n >= Len(list)
    \/ Len(results) > 0 /\ results[Len(results)][3] # "Success"

\* the loop is exhausted
LoopDone(n, list) == n >= Len(list)

\* variant: the call is made without validating the address
IssuesCall_Always(address) == TRUE

\* whether query_uq_alloc reaches the call for this address
IssuesCall(address) == validate_address(address)

\* the loop takes the next address; query_uq_alloc runs up to its return
\* or up to the call
Query ==
    /\ pc = "loop"
    /\ ~LoopDone(i, addresses)
    /\ i' = i + 1
    /\ LET address == addresses[i + 1]
       IN  IF IssuesCall(address)
           THEN /\ calls' = Append(calls, [pos |-> i + 1,
                                           arg |-> Canonical[address],
                                           outcome |-> Pending])
                /\ pc' = "calling"
                /\ results' = results
           ELSE /\ results' = AppendResult(results, query_uq_alloc(address, Pending))
                /\ UNCHANGED <<calls, pc>>
    /\ UNCHANGED <<addresses, report, summary, message>>

\* the call returns or raises; query_uq_alloc returns and the result is appended
CallReturn ==
    /\ pc = "calling"
    /\ \E outcome \in CallOutcomes :
          /\ calls' = [calls EXCEPT ![Len(calls)].outcome = outcome]
          /\ results' = AppendResult(results, query_uq_alloc(addresses[i], outcome))
    /\ pc' = "loop"
    /\ UNCHANGED <<addresses, i, report, summary, message>>

\* lines 207-215: the summary computed from the result list
Summarise(rs) ==
    [total |-> Len(rs),
     successful |-> successful_queries(rs),
     failed |-> Len(rs) - successful_queries(rs),
     total_allocation |-> total_allocation(rs)]

\* lines 190-215 with --output-csv: write_results_to_csv, which reports a
\* failure to write and returns, then the summary
ReportCsv ==
    /\ pc = "loop"
    /\ LoopDone(i, addresses)
    /\ \E written \in BOOLEAN :
          report' = IF written THEN [kind |-> "csv", lines |-> CsvFileContent(results)]
                    ELSE [kind |-> "csv_error", lines |-> <<>>]
    /\ summary' = Summarise(results)
    /\ pc' = "done"
    /\ UNCHANGED <<addresses, i, results, calls, message>>

\* lines 190-215 without --output-csv: the console table, then the summary
ReportTable ==
    /\ pc = "loop"
    /\ LoopDone(i, addresses)
    /\ report' = [kind |-> "table", lines |-> TableLines(results)]
    /\ summary' = Summarise(results)
    /\ pc' = "done"
    /\ UNCHANGED <<addresses, i, results, calls, message>>

Next ==
    \/ LoadCsvFails
    \/ LoadFromCsv
    \/ LoadFromArgs
    \/ Connect
    \/ Query
    \/ CallReturn
    \/ ReportCsv
    \/ ReportTable

Spec == Init /\ [][Next]_vars

\* every step of the script is eventually taken: the interpreter keeps
\* running and every call returns or raises
LiveSpec == Spec /\ WF_vars(Next)

(***************************************************************************)
(* Helpers of the properties.                                              *)
(***************************************************************************)
StartsWith(s, p) == Len(s) >= Len(p) /\ SubSeq(s, 1, Len(p)) = p

\* the outcome of the call issued for input position j, Pending if none
OutcomeAt(j) ==
    IF \E k \in DOMAIN calls : calls[k].pos = j
    THEN calls[CHOOSE k \in DOMAIN calls : calls[k].pos = j].outcome
    ELSE Pending

\* the result of query_uq_alloc for every input string and outcome
ResultOf == [a \in RawStrings, o \in CallOutcomes \cup {Pending} |-> query_uq_alloc(a, o)]

CallsAt(j) == {k \in DOMAIN calls : calls[k].pos = j}

ValidPositions == {j \in DOMAIN addresses : IsValid[addresses[j]]}

SuccessPositions == {j \in DOMAIN results : results[j][3] = "Success"}

RECURSIVE SumAllocations(_)
\* sum of the allocation fields at a set of positions of results
SumAllocations(S) ==
    IF S = {} THEN 0
    ELSE LET j == CHOOSE x \in S : TRUE
         IN  results[j][2] + SumAllocations(S \ {j})

\* every address was answered the same way each time it was asked
SourceDeterministic ==
    \A k1 \in DOMAIN calls, k2 \in DOMAIN calls :
        (/\ calls[k1].arg = calls[k2].arg
         /\ calls[k1].outcome # Pending
         /\ calls[k2].outcome # Pending) => calls[k1].outcome = calls[k2].outcome

Processed == IF pc = "calling" THEN i - 1 ELSE i

(***************************************************************************)
(* C1: the result list is the image of the processed prefix of the input,  *)
(* in input order: after k addresses it has k entries, entry j is the      *)
(* result of input address j, and after the loop it is as long as the      *)
(* input.                                                                  *)
(***************************************************************************)
ResultsArePrefixImage ==
    /\ Len(results) = Processed
    /\ Len(results) <= Len(addresses)
    /\ \A j \in DOMAIN results : results[j] = ResultOf[addresses[j], OutcomeAt(j)]
    /\ pc = "done" => Len(results) = Len(addresses)

ResultsArePrefixImageWitness ==
    /\ pc = "done"
    /\ Len(results) = 3
    /\ addresses[1] = addresses[3]
    /\ ~IsValid[addresses[2]]
    /\ results[1][3] = "Success"
    /\ results[3][3] # "Success"

(***************************************************************************)
(* C2: a result with status "Success" has allocation >= 0, every other     *)
(* result has allocation 0, and a result of an invalid address or of a     *)
(* call that raised never has status "Success".                            *)
(***************************************************************************)
AllocationMatchesStatus ==
    \A j \in DOMAIN results :
        /\ results[j][3] = "Success" => results[j][2] >= 0
        /\ results[j][3] # "Success" => results[j][2] = 0
        /\ results[j][3] = "Success" =>
              IsValid[addresses[j]] /\ OutcomeAt(j).kind = "return"

AllocationMatchesStatusWitness ==
    /\ Len(results) = 3
    /\ \E j \in DOMAIN results : results[j][3] = "Success" /\ results[j][2] > 0
    /\ \E j \in DOMAIN results : OutcomeAt(j).kind = "raise" /\ OutcomeAt(j).detail = "Success"
    /\ \E j \in DOMAIN results : results[j][3] = "Invalid address format"

(***************************************************************************)
(* C3: once the loop has started the run completes with a result for       *)
(* every address, whatever failures occur (every call returns or raises).  *)
(***************************************************************************)
BatchCompletes ==
    (pc = "loop") ~> (pc = "done" /\ Len(results) = Len(addresses))

BatchCompletesWitness ==
    /\ pc = "done"
    /\ Len(results) = 3
    /\ results[1][3] = "Invalid address format"
    /\ StartsWith(results[2][3], "Contract error: ")
    /\ results[3][3] = "Success"

(***************************************************************************)
(* C4: one call for each processed position whose address is valid and     *)
(* none for the others, in input order, each issued only after the         *)
(* results of all earlier positions are recorded; at the end the number of *)
(* calls is the number of valid input addresses.                           *)
(***************************************************************************)
OneCallPerValidAddress ==
    /\ \A j \in DOMAIN results :
          Cardinality(CallsAt(j)) = IF IsValid[addresses[j]] THEN 1 ELSE 0
    /\ \A k \in DOMAIN calls :
          /\ calls[k].pos \in DOMAIN addresses
          /\ calls[k].pos <= Len(results) + 1
          /\ calls[k].arg = Canonical[addresses[calls[k].pos]]
          /\ k > 1 => calls[k - 1].pos < calls[k].pos
          /\ calls[k].outcome = Pending => (k = Len(calls) /\ pc = "calling")
    /\ pc = "calling" => calls[Len(calls)].pos = Len(results) + 1
    /\ pc = "done" => Len(calls) = Cardinality(ValidPositions)

OneCallPerValidAddressWitness ==
    /\ pc = "done"
    /\ Len(addresses) = 3
    /\ Len(calls) = 2
    /\ ~IsValid[addresses[2]]
    /\ calls[1].outcome.kind = "raise"
    /\ addresses[1] = addresses[3]

(***************************************************************************)
(* C5: the status of a failed call begins with the marker of its kind of   *)
(* failure and with no other marker: ContractLogicError with               *)
(* "Contract error: ", any other Web3Exception with "Web3 error: ", any    *)
(* other exception with "Error: ".                                         *)
(***************************************************************************)
Markers == {"Contract error: ", "Web3 error: ", "Error: "}

MarkerOf(exc) ==
    IF exc = "ContractLogicError" THEN "Contract error: "
    ELSE IF exc = "Web3Exception" THEN "Web3 error: "
    ELSE "Error: "

SummaryIsCorrect ==
    /\ pc = "done" =>
          /\ summary.successful = Cardinality(SuccessPositions)
          /\ summary.failed = Len(results) - Cardinality(SuccessPositions)
          /\ summary.total_allocation = SumAllocations(SuccessPositions)
          /\ summary.total = Len(results)
          /\ summary.total = Len(addresses)
    /\ pc # "done" => summary = NoSummary

SummaryIsCorrectWitness ==
    /\ pc = "done"
    /\ summary.total = 3
    /\ summary.successful = 2
    /\ summary.failed = 1
    /\ summary.total_allocation = 1000

(***************************************************************************)
(* C7 as stated: a run ends fatally only for an empty input list or a      *)
(* failed connection, and every other run produces a report and a summary. *)
(***************************************************************************)
OnlyEmptyInputOrConnectionIsFatal ==
    /\ pc = "exit" => message \in {"No addresses to query", "Error connecting to RPC endpoint"}
    /\ pc = "done" => report.kind \in {"table", "csv"} /\ summary # NoSummary

(***************************************************************************)
(* C7 amended: a run ends fatally only for an empty input list, an input   *)
(* CSV file that cannot be read, or a failed connection; a fatal run has   *)
(* no result, no call, no report and no summary; the empty list ends with  *)
(* the "no addresses" message; every other run enters the loop and ends    *)
(* with a summary, and with a report unless writing the output file        *)
(* failed.                                                                 *)
(***************************************************************************)
FatalConditions ==
    /\ pc = "exit" =>
          /\ message \in {"No addresses to query", "Error connecting to RPC endpoint",
                          "Error: CSV file not found", "Error reading CSV file"}
          /\ results = <<>> /\ calls = <<>> /\ i = 0
          /\ report = NoReport /\ summary = NoSummary
    /\ (pc # "load" /\ addresses = <<>>) =>
          (pc = "exit" /\ message \in {"No addresses to query", "Error: CSV file not found",
                                       "Error reading CSV file"})
    /\ (pc = "exit" /\ message = "No addresses to query") => addresses = <<>>
    /\ (pc = "exit" /\ message = "Error connecting to RPC endpoint") => addresses # <<>>
    /\ pc \notin {"load", "connect", "exit"} => message = ""
    /\ pc \notin {"exit", "done"} => ENABLED Next
    /\ pc = "done" =>
          /\ report.kind \in {"table", "csv", "csv_error"}
          /\ summary # NoSummary
          /\ Len(results) > 0

FatalConditionsWitness ==
    /\ pc = "exit"
    /\ message = "Error connecting to RPC endpoint"
    /\ Len(addresses) = 3

(***************************************************************************)
(* C8: when every address is answered the same way each time, two          *)
(* positions of the input holding the same string get identical results,   *)
(* whatever is processed before or between them.                           *)
(***************************************************************************)
SameAddressSameResult ==
    SourceDeterministic =>
        \A j1 \in DOMAIN results, j2 \in DOMAIN results :
            addresses[j1] = addresses[j2] => results[j1] = results[j2]

SameAddressSameResultWitness ==
    /\ Len(results) = 3
    /\ SourceDeterministic
    /\ addresses[1] = addresses[3]
    /\ results[1][3] = "Success"
    /\ results[1][2] > 0
    /\ OutcomeAt(2).kind = "raise"

(***************************************************************************)
(* C9: the console table has one line per result in input order, holding   *)
(* the address, the allocation of a success or the placeholder N/A, and    *)
(* the status; the CSV content has, after its header, one record per       *)
(* result in input order with the address, the allocation and the status.  *)
(***************************************************************************)
TableColumn1(line) == strip(SubSeq(line, 1, AddressWidth))
TableColumn2(line) == strip(SubSeq(line, AddressWidth + 2, AddressWidth + 1 + AllocationWidth))
TableColumn3(line) == SubSeq(line, AddressWidth + AllocationWidth + 3, Len(line))

ReportMatchesResults ==
    /\ report.kind = "table" =>
          /\ Len(report.lines) = Len(results)
          /\ \A j \in DOMAIN results :
                /\ TableColumn1(report.lines[j]) = results[j][1]
                /\ TableColumn2(report.lines[j]) =
                      IF results[j][3] = "Success" THEN ToString(results[j][2]) ELSE "N/A"
                /\ TableColumn3(report.lines[j]) = results[j][3]
    /\ report.kind = "csv" =>
          /\ Len(report.lines) = Len(results) + 1
          /\ report.lines[1] = <<"address", "uq_allocation", "status">>
          /\ \A j \in DOMAIN results :
                /\ Len(report.lines[j + 1]) = 3
                /\ report.lines[j + 1][1] = results[j][1]
                /\ report.lines[j + 1][2] = ToString(results[j][2])
                /\ report.lines[j + 1][3] = results[j][3]

ReportMatchesResultsWitness ==
    /\ report.kind = "table"
    /\ Len(results) = 3
    /\ results[1][3] = "Success"
    /\ results[1][2] = 0
    /\ results[2][3] # "Success"
    /\ results[3][2] = 1000

(***************************************************************************)
(* C10 as stated: the result is (raw, 0, "Invalid address format") for an  *)
(* invalid address, (checksum form, v, "Success") for a call returning v,  *)
(* (raw, 0, failure status) for a failed call, and its address field is    *)
(* the checksum form if and only if its status is "Success".               *)
(***************************************************************************)
ResultContent(j) ==
    /\ ~IsValid[addresses[j]] =>
          results[j] = <<addresses[j], 0, "Invalid address format">>
    /\ (IsValid[addresses[j]] /\ OutcomeAt(j).kind = "return") =>
          results[j] = <<Canonical[addresses[j]], OutcomeAt(j).value, "Success">>
    /\ (IsValid[addresses[j]] /\ OutcomeAt(j).kind = "raise") =>
          /\ results[j][1] = addresses[j]
          /\ results[j][2] = 0
          /\ \E m \in Markers : results[j][3] = m \o OutcomeAt(j).detail

CanonicalIffSuccess ==
    \A j \in DOMAIN results :
        /\ ResultContent(j)
        /\ results[j][1] = Canonical[addresses[j]] <=> results[j][3] = "Success"

(***************************************************************************)
(* C10 amended: the same contents; the address field is the checksum form  *)
(* when the status is "Success" and the raw input string otherwise, so it  *)
(* is the checksum form if and only if the status is "Success" or the      *)
(* input string was already in checksum form.                              *)
(***************************************************************************)
CanonicalWhenSuccess ==
    \A j \in DOMAIN results :
        /\ ResultContent(j)
        /\ results[j][3] = "Success" => results[j][1] = Canonical[addresses[j]]
        /\ results[j][3] # "Success" => results[j][1] = addresses[j]
        /\ results[j][1] = Canonical[addresses[j]] <=>
              (results[j][3] = "Success" \/ addresses[j] = Canonical[addresses[j]])

CanonicalWhenSuccessWitness ==
    /\ Len(results) = 3
    /\ addresses[1] = "0xab" /\ results[1] = <<"0xaB", 1000, "Success">>
    /\ addresses[2] = "0xCd" /\ results[2] = <<"0xCd", 0, "Web3 error: Success">>
    /\ addresses[3] = "0xab" /\ results[3] = <<"0xab", 0, "Error: Success">>

====
